---- MODULE Spec2Model ----
(***************************************************************************)
(* A model of nanoos/nvs.py: the NVS client class.                         *)
(*                                                                         *)
(* Numbers.  Python floats are modelled in fixed point:                    *)
(*   - a latitude or longitude is an integer count of 1e-4 degrees         *)
(*     (44.6258 deg is 446258, -126.0001 deg is -1260001);                 *)
(*   - a distance (and the watch circle radius) is an integer count of     *)
(*     decimetres, so that a distance has a fractional part of a metre and *)
(*     int(distance) is distance \div 10;                                  *)
(*   - a float attribute is a record [set, fin, v]: set is FALSE until the  *)
(*     attribute is assigned, fin is FALSE for inf and nan, which pyproj   *)
(*     hands back for a point its projection rejects.                      *)
(* math.sin/cos/atan2/sqrt and pyproj's transverse Mercator are library    *)
(* code; they are modelled by their small-angle expansions at the library's *)
(* operating latitude (44.6 N): one unit of latitude is 111 dm of arc, one *)
(* unit of longitude 79 dm.                                                *)
(***************************************************************************)
EXTENDS Integers, Sequences, FiniteSets, TLC

VARIABLES self, payload, call, ret, requests

vars == <<self, payload, call, ret, requests>>

(***************************************************************************)
(* Bounds and input sets.                                                  *)
(***************************************************************************)
\* Longest asset list the provider returns.
MaxAssets == 2
\* Most measurement variables an asset declares.
MaxVars == 2

Methods == {"haversine", "euclidian", "manhattan"}

\* Ship positions <<lat, lon>> at the latitude of the OSU dock: the dock, the
\* four zone-boundary longitudes of _set_projection, and one longitude well
\* inside zone 9 and one well inside zone 8.
ShipPoints ==
    { <<446258, -1240451>>, <<446258, -1260000>>, <<446258, -1260001>>,
      <<446258, -1275000>>, <<446258, -1290000>>, <<446258, -1290001>>,
      <<446258, -1320000>> }

\* Asset records of the provider's "meta" result: one at the first ship
\* position, one 1e-4 degrees (11.1 m) north of it, one three degrees west.
AssetUniverse ==
    { [siso_id |-> "A", lat |-> 446258, lon |-> -1260000, deploy_status |-> "online"],
      [siso_id |-> "B", lat |-> 446259, lon |-> -1260000, deploy_status |-> "offline"],
      [siso_id |-> "C", lat |-> 446258, lon |-> -1290001, deploy_status |-> "temporarily offline"] }

\* Asset positions handed to the distance operations directly: 11.1 m north
\* of the second ship position, and three degrees west of it.
AssetPoints == { <<446259, -1260000>>, <<446258, -1290001>> }

\* Watch circle radii in decimetres: 0 m and 11 m.
Radii == {0, 110}

RECURSIVE SeqsUpTo(_, _)
SeqsUpTo(S, n) ==
    IF n = 0 THEN {<<>>}
    ELSE LET shorter == SeqsUpTo(S, n - 1)
         IN  shorter \cup { Append(q, e) : q \in shorter, e \in S }

AssetLists == SeqsUpTo(AssetUniverse, MaxAssets)

(***************************************************************************)
(* Floats.                                                                 *)
(***************************************************************************)
Fin(v) == [set |-> TRUE, fin |-> TRUE, v |-> v]
NonFinite == [set |-> TRUE, fin |-> FALSE, v |-> 0]
\* An attribute of the instance that no method has assigned yet.
UnsetFloat == [set |-> FALSE, fin |-> FALSE, v |-> 0]

Abs(n) == IF n < 0 THEN -n ELSE n
Max(a, b) == IF a >= b THEN a ELSE b

FSub(a, b) == IF a.fin /\ b.fin THEN Fin(a.v - b.v) ELSE NonFinite
FAdd(a, b) == IF a.fin /\ b.fin THEN Fin(a.v + b.v) ELSE NonFinite
FAbs(a) == IF a.fin THEN Fin(Abs(a.v)) ELSE NonFinite
\* a <= r for a float a: every comparison with inf or nan here is False.
FLe(a, r) == a.fin /\ a.v <= r

\* One step of the bitwise square root: keep bit b if the square still fits.
SqrtStep(r, b, n) ==
    IF r + b <= 46340 /\ (r + b) * (r + b) <= n THEN r + b ELSE r

\* math.sqrt on a non-negative fixed-point number below 2^31.
ISqrt(n) ==
    SqrtStep(SqrtStep(SqrtStep(SqrtStep(SqrtStep(SqrtStep(SqrtStep(SqrtStep(
    SqrtStep(SqrtStep(SqrtStep(SqrtStep(SqrtStep(SqrtStep(SqrtStep(SqrtStep(
        0, 32768, n), 16384, n), 8192, n), 4096, n), 2048, n), 1024, n), 512, n),
        256, n), 128, n), 64, n), 32, n), 16, n), 8, n), 4, n), 2, n), 1, n)

SumOfSquares(a, b) == a * a + b * b

\* sqrt(dx^2 + dy^2) of non-negative dx, dy scaled down by s first.
ScaledHyp(dx, dy, s) == s * ISqrt(SumOfSquares(dx \div s, dy \div s))

\* math.sqrt(dx**2 + dy**2); large operands are scaled first, as a float
\* keeps relative and not absolute precision.
Hyp(dx, dy) ==
    ScaledHyp(Abs(dx), Abs(dy), (Max(Abs(dx), Abs(dy)) \div 30000) + 1)

FHyp(a, b) == IF a.fin /\ b.fin THEN Fin(Hyp(a.v, b.v)) ELSE NonFinite

\* atan t in degrees for t in thousandths, 0 <= t <= 1000:
\* 45 t + 15.64 t (1 - t).
AtanPermille(t) == (45 * t + (1564 * t * (1000 - t)) \div 100000) \div 1000

\* atan(num / den) in degrees on the first octant, 0 <= num <= den.
AtanScaled(num, den, s) == AtanPermille(((num \div s) * 1000) \div (den \div s))

AtanOctant(num, den) ==
    IF den = 0 THEN 0 ELSE AtanScaled(num, den, (den \div 1000000) + 1)

\* The first-quadrant angle of (ax, ay) reflected into the quadrant of (x, y).
Reflect(first, y, x) ==
    IF y >= 0 THEN (IF x >= 0 THEN first ELSE 180 - first)
    ELSE -(IF x >= 0 THEN first ELSE 180 - first)

\* math.degrees(math.atan2(y, x)) in whole degrees, in (-180, 180].
Atan2Deg(y, x) ==
    Reflect(IF Abs(y) <= Abs(x) THEN AtanOctant(Abs(y), Abs(x))
            ELSE 90 - AtanOctant(Abs(x), Abs(y)), y, x)

(***************************************************************************)
(* The NVS instance.                                                       *)
(***************************************************************************)
Unset == "unset"
Absent == "absent"

\* NVS.__init__: payload = {}; no other attribute exists yet.
InitSelf ==
    [ ship_lat |-> Unset, ship_lon |-> Unset, asset_lat |-> Unset,
      asset_lon |-> Unset, projection |-> Unset, haversine |-> UnsetFloat,
      manhattan_x |-> UnsetFloat, manhattan_y |-> UnsetFloat,
      manhattan |-> UnsetFloat, euclidian |-> UnsetFloat ]

InitPayload ==
    [ opt |-> Absent, asset_id |-> Absent, units_mode |-> Absent, var_id |-> Absent ]

\* Outcomes of a call: a returned value or a raised exception.
Returned(kind, val) == [kind |-> kind, val |-> val]
Raised(exc) == [kind |-> exc, val |-> <<>>]

(***************************************************************************)
(* Geometry: each method is an operator from the instance (and the call's  *)
(* arguments) to the instance it leaves behind.                            *)
(***************************************************************************)
\* NVS._set_projection: the UTM zone from self.ship_lon.
\* A variant of the zone rule that hands the boundary longitude -126 to
\* zone 9.
_set_projection_open_boundary(s) ==
    [s EXCEPT !.projection =
        IF s.ship_lon > -1260000 THEN 10
        ELSE IF -1290000 < s.ship_lon /\ s.ship_lon <= -1260000 THEN 9
        ELSE 8]

_set_projection(s) ==
    [s EXCEPT !.projection =
        IF s.ship_lon >= -1260000 THEN 10
        ELSE IF -1290000 < s.ship_lon /\ s.ship_lon < -1260000 THEN 9
        ELSE 8]

\* Easting and northing in decimetres of a point n units of longitude from
\* the central meridian; the northing carries the meridian-convergence term,
\* quadratic in n.
TransverseMercator(n, lat) ==
    [x |-> Fin(5000000 + 79 * n),
     y |-> Fin(111 * lat + (((Abs(n) \div 100) * (Abs(n) \div 100)) \div 1000) * 486)]

\* Proj(proj='utm', zone=zone, ellps='WGS84')(lon, lat); the zone's central
\* meridian is at -183 + 6 zone degrees.  A latitude beyond the poles is
\* rejected: both coordinates come back non-finite.
Projection(zone, lon, lat) ==
    IF Abs(lat) > 900000
    THEN [x |-> NonFinite, y |-> NonFinite]
    ELSE TransverseMercator(lon - (6 * zone - 183) * 10000, lat)

\* NVS._get_haversine_distance: R * c with R = 6371e3, for the small angles
\* of the operating region R * sqrt(dphi^2 + cos(phi)^2 dlambda^2).
_get_haversine_distance(s) ==
    [s EXCEPT !.haversine =
        Fin(Hyp(111 * (s.asset_lat - s.ship_lat), 79 * (s.asset_lon - s.ship_lon)))]

\* self.manhattan_x, self.manhattan_y and self.manhattan from the deltas.
ManhattanFields(s, mx, my) ==
    [s EXCEPT !.manhattan_x = mx, !.manhattan_y = my,
              !.manhattan = FAdd(FAbs(mx), FAbs(my))]

\* asset_x - ship_x and asset_y - ship_y of the projected points.
ManhattanDeltas(s, ship, asset) ==
    ManhattanFields(s, FSub(asset.x, ship.x), FSub(asset.y, ship.y))

\* _get_manhattan_distance once the projection is set.
ManhattanProjected(s) ==
    ManhattanDeltas(s, Projection(s.projection, s.ship_lon, s.ship_lat),
                       Projection(s.projection, s.asset_lon, s.asset_lat))

\* NVS._get_manhattan_distance.
_get_manhattan_distance(s) == ManhattanProjected(_set_projection(s))

\* self.euclidian from self.manhattan_x and self.manhattan_y.
EuclidianField(s) == [s EXCEPT !.euclidian = FHyp(s.manhattan_x, s.manhattan_y)]

\* NVS._get_euclidian_distance.
_get_euclidian_distance(s) == EuclidianField(_get_manhattan_distance(s))

\* distance = self.haversine (self.euclidian, self.manhattan): the instance
\* after the helper ran, and the distance read back from the helper's field.
ReadDistance(s, field) == [self |-> s, distance |-> s[field]]

\* A variant of the if/elif chain whose manhattan branch reads
\* self.euclidian, an attribute that branch does not assign.
MethodDistanceOtherField(s, method) ==
    IF method = "haversine" THEN ReadDistance(_get_haversine_distance(s), "haversine")
    ELSE IF method = "euclidian" THEN ReadDistance(_get_euclidian_distance(s), "euclidian")
    ELSE ReadDistance(_get_manhattan_distance(s), "euclidian")

\* The if/elif chain on method shared by get_distance_from_ship and
\* _is_in_range.
MethodDistance(s, method) ==
    IF method = "haversine" THEN ReadDistance(_get_haversine_distance(s), "haversine")
    ELSE IF method = "euclidian" THEN ReadDistance(_get_euclidian_distance(s), "euclidian")
    ELSE ReadDistance(_get_manhattan_distance(s), "manhattan")

\* return int(distance); int(inf) raises OverflowError (int(nan) ValueError,
\* counted with it), and an attribute never assigned AttributeError.
IntDistance(m) ==
    [self |-> m.self,
     ret |-> IF ~m.distance.set THEN Raised("AttributeError")
             ELSE IF m.distance.fin THEN Returned("int", m.distance.v \div 10)
             ELSE Raised("OverflowError")]

\* NVS.get_distance_from_ship.
get_distance_from_ship(s, ship_lat, ship_lon, asset_lat, asset_lon, method) ==
    IntDistance(MethodDistance(
        [s EXCEPT !.ship_lat = ship_lat, !.ship_lon = ship_lon,
                  !.asset_lat = asset_lat, !.asset_lon = asset_lon], method))

\* NVS.get_bearing_from_ship: reads no attribute of the instance.  For the
\* small angles of the operating region y = cos(phi) dlambda, x = dphi.
get_bearing_from_ship(ship_lat, ship_lon, asset_lat, asset_lon) ==
    Returned("int",
             Atan2Deg(79 * (asset_lon - ship_lon), 111 * (asset_lat - ship_lat)) % 360)

\* if asset_distance <= distance: the untruncated distance against the radius.
InRange(m, distance) == [self |-> m.self, ret |-> FLe(m.distance, distance)]

\* NVS._is_in_range.
_is_in_range(s, distance, method) == InRange(MethodDistance(s, method), distance)

\* return distance, bearing.
DistanceBearing(d, b) ==
    [self |-> d.self,
     ret |-> IF d.ret.kind = "int" THEN Returned("tuple", <<d.ret.val, b.val>>)
             ELSE d.ret]

\* NVS.get_asset_distance_bearing.
get_asset_distance_bearing(s, ship_lat, ship_lon, asset, method) ==
    DistanceBearing(
        get_distance_from_ship(s, ship_lat, ship_lon, asset.lat, asset.lon, method),
        get_bearing_from_ship(ship_lat, ship_lon, asset.lat, asset.lon))

(***************************************************************************)
(* The asset directory: the operations that query the provider.  A request *)
(* is the payload dict as it stands when requests.get is called.           *)
(***************************************************************************)
\* "offline" in asset['deploy_status'], over the statuses the provider uses.
ContainsOffline(status) == status \in {"offline", "temporarily offline"}

\* list.remove(x): drops the first element equal to x.
RECURSIVE RemoveFirst(_, _)
RemoveFirst(list, x) ==
    IF list = <<>> THEN <<>>
    ELSE IF Head(list) = x THEN Tail(list)
    ELSE <<Head(list)>> \o RemoveFirst(Tail(list), x)

\* for asset in assets: if offline: assets.remove(asset).  The list iterator
\* holds an index (i, 1-based here) into the list being shortened.
RECURSIVE RemoveOfflineLoop(_, _)
RemoveOfflineLoop(assets, i) ==
    IF i > Len(assets) THEN assets
    ELSE IF ContainsOffline(assets[i].deploy_status)
    THEN RemoveOfflineLoop(RemoveFirst(assets, assets[i]), i + 1)
    ELSE RemoveOfflineLoop(assets, i + 1)

\* The request of get_all_assets_metadata and what it returns; a response
\* without success falls off the end of the method: None.
MetaResult(pl, online, response) ==
    [payload |-> pl,
     requests |-> <<pl>>,
     ret |-> IF response.success
             THEN Returned("list", IF online
                                   THEN RemoveOfflineLoop(response.result, 1)
                                   ELSE response.result)
             ELSE Returned("None", <<>>)]

\* NVS.get_all_assets_metadata.
get_all_assets_metadata(pl, online, response) ==
    MetaResult([pl EXCEPT !.opt = "meta"], online, response)

\* The for loop of get_nearby_assets_metadata: NearbyLoop sets the asset's
\* coordinates and tests it, NearbyStep appends it or continues.
RECURSIVE NearbyLoop(_, _, _, _, _, _)
RECURSIVE NearbyStep(_, _, _, _, _, _)
NearbyStep(r, assets, i, distance, method, nearby) ==
    NearbyLoop(r.self, assets, i + 1, distance, method,
               IF r.ret THEN Append(nearby, assets[i]) ELSE nearby)

\* A variant of the loop that sets the asset's coordinates for the first
\* asset only and tests every later asset at those coordinates.
NearbyLoopFirstCoordinates(s, assets, i, distance, method, nearby) ==
    IF i > Len(assets) THEN [self |-> s, nearby |-> nearby]
    ELSE NearbyStep(_is_in_range(IF i = 1
                                 THEN [s EXCEPT !.asset_lat = assets[i].lat,
                                                !.asset_lon = assets[i].lon]
                                 ELSE s,
                                 distance, method),
                    assets, i, distance, method, nearby)

NearbyLoop(s, assets, i, distance, method, nearby) ==
    IF i > Len(assets) THEN [self |-> s, nearby |-> nearby]
    ELSE NearbyStep(_is_in_range([s EXCEPT !.asset_lat = assets[i].lat,
                                           !.asset_lon = assets[i].lon],
                                 distance, method),
                    assets, i, distance, method, nearby)

\* if nearby == []: return None, else: return nearby.
NearbyResult(g, l) ==
    [self |-> l.self, payload |-> g.payload, requests |-> g.requests,
     ret |-> IF l.nearby = <<>> THEN Returned("None", <<>>)
             ELSE Returned("list", l.nearby)]

\* get_nearby_assets_metadata after its call of get_all_assets_metadata;
\* iterating over None raises TypeError.
NearbyOf(s, g, distance, method) ==
    IF g.ret.kind = "None"
    THEN [self |-> s, payload |-> g.payload, requests |-> g.requests,
          ret |-> Raised("TypeError")]
    ELSE NearbyResult(g, NearbyLoop(s, g.ret.val, 1, distance, method, <<>>))

\* NVS.get_nearby_assets_metadata.
get_nearby_assets_metadata(s, pl, ship_lat, ship_lon, distance, method, online, response) ==
    NearbyOf([s EXCEPT !.ship_lat = ship_lat, !.ship_lon = ship_lon],
             get_all_assets_metadata(pl, online, response), distance, method)

\* The for loop of get_nearby_distance_bearing; an exception of
\* get_asset_distance_bearing leaves the loop.
RECURSIVE DistanceBearingLoop(_, _, _, _, _, _, _)
RECURSIVE DistanceBearingStep(_, _, _, _, _, _, _)
DistanceBearingStep(r, nearby, i, ship_lat, ship_lon, method, db) ==
    IF r.ret.kind # "tuple" THEN r
    ELSE DistanceBearingLoop(r.self, nearby, i + 1, ship_lat, ship_lon, method,
             Append(db, <<nearby[i].lat, nearby[i].lon, r.ret.val[1], r.ret.val[2]>>))

DistanceBearingLoop(s, nearby, i, ship_lat, ship_lon, method, db) ==
    IF i > Len(nearby) THEN [self |-> s, ret |-> Returned("list", db)]
    ELSE DistanceBearingStep(
             get_asset_distance_bearing(s, ship_lat, ship_lon, nearby[i], method),
             nearby, i, ship_lat, ship_lon, method, db)

\* The instance and the outcome of the loop, with the requests of the call.
WithLoop(n, l) == [n EXCEPT !.self = l.self, !.ret = l.ret]

\* get_nearby_distance_bearing after its call of get_nearby_assets_metadata;
\* iterating over None raises TypeError.
DistanceBearingOf(n, ship_lat, ship_lon, method) ==
    IF n.ret.kind = "TypeError" THEN n
    ELSE IF n.ret.kind = "None" THEN [n EXCEPT !.ret = Raised("TypeError")]
    ELSE WithLoop(n, DistanceBearingLoop(n.self, n.ret.val, 1, ship_lat, ship_lon,
                                         method, <<>>))

\* NVS.get_nearby_distance_bearing.
get_nearby_distance_bearing(s, pl, ship_lat, ship_lon, distance, method, online, response) ==
    DistanceBearingOf(
        get_nearby_assets_metadata(s, pl, ship_lat, ship_lon, distance, method,
                                   online, response),
        ship_lat, ship_lon, method)

\* NVS.status: True iff the response code is 200.
status(code) == Returned("bool", code = 200)

\* NVS.check_asset_data_age, times in hours: the newest record of the result
\* is popped, its timestamp read as US/Pacific (8 hours behind UTC) and
\* subtracted from the current UTC time.  pop() on an empty list raises
\* IndexError; a response without success falls off the end: None.
check_asset_data_age(pl, asset, response, now_time) ==
    LET pl1 == [pl EXCEPT !.opt = "data_age", !.asset_id = asset.siso_id]
        last == response.result[Len(response.result)]
    IN  [payload |-> pl1,
         requests |-> <<pl1>>,
         ret |-> IF ~response.success THEN Returned("None", <<>>)
                 ELSE IF response.result = <<>> THEN Raised("IndexError")
                 ELSE Returned("timedelta", now_time - (last.time + 8))]

\* float(sample['depth'].replace('m', '')), in tenths of a metre.
DepthFloat(depth) == IF depth = "-0.9 m" THEN -9 ELSE 50

\* The dict built from one response: sample['var_id'] + '_' + sample['depth']
\* maps to [value, units, time, depth]; a later sample with the same name
\* replaces an earlier one.  A dict is a set of items with distinct names.
RECURSIVE DataOf(_, _)
DataOf(samples, data) ==
    IF samples = <<>> THEN data
    ELSE LET sample == Head(samples)
             var_name == <<sample.var_id, sample.depth>>
             d == <<sample.value, sample.units, DepthFloat(sample.depth)>>
         IN  DataOf(Tail(samples),
                    { e \in data : e.name # var_name }
                        \cup { [name |-> var_name, d |-> d] })

\* The for loop of get_recent_data.  data is assigned only under
\* content['success']: after a failed fetch it is still the dict of the
\* latest successful one, and unbound (UnboundLocalError on append) when no
\* fetch has succeeded yet.
RECURSIVE RecentLoop(_, _, _, _, _, _, _)
RecentLoop(pl, measurements, responses, i, data, all_data, reqs) ==
    IF i > Len(measurements)
    THEN [payload |-> pl, requests |-> reqs, ret |-> Returned("list", all_data)]
    ELSE LET pl1 == [pl EXCEPT !.var_id = measurements[i].var_id]
             data1 == IF responses[i].success
                      THEN [bound |-> TRUE, dict |-> DataOf(responses[i].result, {})]
                      ELSE data
         IN  IF ~data1.bound
             THEN [payload |-> pl1, requests |-> Append(reqs, pl1),
                   ret |-> Raised("UnboundLocalError")]
             ELSE RecentLoop(pl1, measurements, responses, i + 1, data1,
                             Append(all_data, data1.dict), Append(reqs, pl1))

\* NVS.get_recent_data.
get_recent_data(pl, asset, responses) ==
    LET pl1 == [pl EXCEPT !.opt = "recent_values", !.asset_id = asset.siso_id,
                          !.units_mode = "v1"]
    IN  RecentLoop(pl1, asset.measurements, responses, 1,
                   [bound |-> FALSE, dict |-> {}], <<>>, <<>>)

(***************************************************************************)
(* What the provider can answer.                                           *)
(***************************************************************************)
Failure == [success |-> FALSE, result |-> <<>>]

MetaResponses == {Failure} \cup { [success |-> TRUE, result |-> l] : l \in AssetLists }

AgeResponses ==
    {Failure} \cup { [success |-> TRUE, result |-> l] :
                        l \in {<<>>, <<[time |-> 0]>>, <<[time |-> 0], [time |-> 24]>>} }

VarIds == {"H1_Salinity", "H1_Temp"}

Sample(v, depth, value) == [var_id |-> v, depth |-> depth, value |-> value, units |-> "u"]

RecentResponses(v) ==
    {Failure} \cup { [success |-> TRUE, result |-> l] :
                        l \in { <<Sample(v, "-0.9 m", 1)>>,
                                <<Sample(v, "-0.9 m", 1), Sample(v, "5 m", 2)>> } }

RecentAssets ==
    { [siso_id |-> id, measurements |-> m] :
        id \in {"A", "B"},
        m \in SeqsUpTo({ [var_id |-> v] : v \in VarIds }, MaxVars) }

ResponsesFor(measurements) ==
    { f \in [1..Len(measurements) -> UNION { RecentResponses(v) : v \in VarIds }] :
        \A i \in 1..Len(measurements) : f[i] \in RecentResponses(measurements[i].var_id) }

(***************************************************************************)
(* The state machine: one action per public method.  call holds the        *)
(* latest call and its inputs, ret its outcome, requests the query         *)
(* parameters it sent to the provider, in order.                           *)
(***************************************************************************)
Init ==
    /\ self = InitSelf
    /\ payload = InitPayload
    /\ call = [op |-> "__init__"]
    /\ ret = Returned("None", <<>>)
    /\ requests = <<>>

Status ==
    \E code \in {200, 503} :
        /\ call' = [op |-> "status", code |-> code]
        /\ ret' = status(code)
        /\ requests' = <<>>
        /\ UNCHANGED <<self, payload>>

GetAllAssetsMetadata(responses) ==
    \E online \in BOOLEAN, response \in responses :
        LET r == get_all_assets_metadata(payload, online, response)
        IN  /\ call' = [op |-> "get_all_assets_metadata", online |-> online,
                        response |-> response]
            /\ payload' = r.payload
            /\ requests' = r.requests
            /\ ret' = r.ret
            /\ UNCHANGED self

GetDistanceFromShip(ships, assets) ==
    \E ship \in ships, asset \in assets, method \in Methods :
        LET r == get_distance_from_ship(self, ship[1], ship[2], asset[1], asset[2], method)
        IN  /\ call' = [op |-> "get_distance_from_ship", ship_lat |-> ship[1],
                        ship_lon |-> ship[2], asset_lat |-> asset[1],
                        asset_lon |-> asset[2], method |-> method]
            /\ self' = r.self
            /\ ret' = r.ret
            /\ requests' = <<>>
            /\ UNCHANGED payload

GetBearingFromShip(ships, assets) ==
    \E ship \in ships, asset \in assets :
        /\ call' = [op |-> "get_bearing_from_ship", ship_lat |-> ship[1],
                    ship_lon |-> ship[2], asset_lat |-> asset[1],
                    asset_lon |-> asset[2]]
        /\ ret' = get_bearing_from_ship(ship[1], ship[2], asset[1], asset[2])
        /\ requests' = <<>>
        /\ UNCHANGED <<self, payload>>

GetAssetDistanceBearing(ships, assets) ==
    \E ship \in ships, asset \in assets, method \in Methods :
        LET r == get_asset_distance_bearing(self, ship[1], ship[2], asset, method)
        IN  /\ call' = [op |-> "get_asset_distance_bearing", ship_lat |-> ship[1],
                        ship_lon |-> ship[2], asset |-> asset, method |-> method]
            /\ self' = r.self
            /\ ret' = r.ret
            /\ requests' = <<>>
            /\ UNCHANGED payload

GetNearbyAssetsMetadata(ships, radii, responses) ==
    \E ship \in ships, distance \in radii, method \in Methods,
       online \in BOOLEAN, response \in responses :
        LET r == get_nearby_assets_metadata(self, payload, ship[1], ship[2], distance,
                                            method, online, response)
        IN  /\ call' = [op |-> "get_nearby_assets_metadata", ship_lat |-> ship[1],
                        ship_lon |-> ship[2], distance |-> distance,
                        method |-> method, online |-> online, response |-> response]
            /\ self' = r.self
            /\ payload' = r.payload
            /\ requests' = r.requests
            /\ ret' = r.ret

GetNearbyDistanceBearing(ships, radii, responses) ==
    \E ship \in ships, distance \in radii, method \in Methods,
       online \in BOOLEAN, response \in responses :
        LET r == get_nearby_distance_bearing(self, payload, ship[1], ship[2], distance,
                                             method, online, response)
        IN  /\ call' = [op |-> "get_nearby_distance_bearing", ship_lat |-> ship[1],
                        ship_lon |-> ship[2], distance |-> distance,
                        method |-> method, online |-> online, response |-> response]
            /\ self' = r.self
            /\ payload' = r.payload
            /\ requests' = r.requests
            /\ ret' = r.ret

CheckAssetDataAge ==
    \E asset \in RecentAssets, response \in AgeResponses, now_time \in {48} :
        LET r == check_asset_data_age(payload, asset, response, now_time)
        IN  /\ call' = [op |-> "check_asset_data_age", asset |-> asset,
                        response |-> response, now_time |-> now_time]
            /\ payload' = r.payload
            /\ requests' = r.requests
            /\ ret' = r.ret
            /\ UNCHANGED self

GetRecentData ==
    \E asset \in RecentAssets :
        \E responses \in ResponsesFor(asset.measurements) :
            LET r == get_recent_data(payload, asset, responses)
            IN  /\ call' = [op |-> "get_recent_data", asset |-> asset,
                            responses |-> responses]
                /\ payload' = r.payload
                /\ requests' = r.requests
                /\ ret' = r.ret
                /\ UNCHANGED self

\* The ship at the first position, where assets A and B lie.
NearbyShips == { <<446258, -1260000>> }

\* Ship positions of the distance operations: in zone 10 and in zone 8.
GeoShips == { <<446258, -1260000>>, <<446258, -1290001>> }

\* The provider's answers with assets A and B only.
NearbyResponses ==
    {Failure} \cup { [success |-> TRUE, result |-> l] :
                        l \in SeqsUpTo({ a \in AssetUniverse : a.siso_id \in {"A", "B"} },
                                       MaxAssets) }

\* The provider's answers of at most one asset.
ShortResponses ==
    {Failure} \cup { [success |-> TRUE, result |-> l] : l \in SeqsUpTo(AssetUniverse, 1) }

\* The distance operations, after get_nearby_assets_metadata runs that leave
\* their coordinates, zone and distances in the instance.
Next ==
    \/ GetDistanceFromShip(GeoShips, { <<a.lat, a.lon>> : a \in AssetUniverse })
    \/ GetAssetDistanceBearing(GeoShips, AssetUniverse)
    \/ GetNearbyAssetsMetadata(NearbyShips, {110}, ShortResponses)

Spec == Init /\ [][Next]_vars

\* The zone selection over every boundary longitude.
NextZone ==
    \/ GetDistanceFromShip(ShipPoints, AssetPoints)

SpecZone == Init /\ [][NextZone]_vars

\* The nearby-asset filter over every asset list.
NextNearby ==
    \/ GetAllAssetsMetadata(NearbyResponses)
    \/ GetNearbyAssetsMetadata(NearbyShips, {110}, NearbyResponses)

SpecNearby == Init /\ [][NextNearby]_vars

\* The provider's answers that decide what kind of outcome a call has: a
\* failure, an asset in range, an asset out of range.
OutcomeResponses ==
    { Failure,
      [success |-> TRUE, result |-> << CHOOSE a \in AssetUniverse : a.siso_id = "A" >>],
      [success |-> TRUE, result |-> << CHOOSE a \in AssetUniverse : a.siso_id = "B" >>] }

\* What each geospatial call returns or raises: on arguments inside and
\* outside their ranges, and on every kind of answer of the provider.
NextOutcomes ==
    \/ GetDistanceFromShip(NearbyShips \cup { <<900001, -1260000>> },
                           { <<446258, 1800001>> })
    \/ GetBearingFromShip(NearbyShips \cup { <<900001, -1260000>> },
                          { <<446258, 1800001>> })
    \/ GetNearbyAssetsMetadata(NearbyShips, Radii, OutcomeResponses)
    \/ GetNearbyDistanceBearing(NearbyShips, {110}, OutcomeResponses)

SpecOutcomes == Init /\ [][NextOutcomes]_vars

\* The provider-facing operations.
NextDirectory ==
    \/ Status
    \/ GetAllAssetsMetadata(MetaResponses)
    \/ CheckAssetDataAge
    \/ GetRecentData

SpecDirectory == Init /\ [][NextDirectory]_vars

(***************************************************************************)
(* Properties.  Each is stated over the latest call (call), its outcome    *)
(* (ret), the requests it sent (requests) and the instance it left (self). *)
(***************************************************************************)
\* An instance whose attributes hold nothing but the two points.
FreshAt(ship_lat, ship_lon, asset_lat, asset_lon) ==
    [InitSelf EXCEPT !.ship_lat = ship_lat, !.ship_lon = ship_lon,
                     !.asset_lat = asset_lat, !.asset_lon = asset_lon]

\* The asset list get_all_assets_metadata hands to the nearby filter of the
\* latest call (empty when the provider failed).
Listed == get_all_assets_metadata(InitPayload, call.online, call.response).ret.val

\* The untruncated distance between the ship of the latest call and asset a,
\* under the method of the call.
OwnDistance(a) ==
    MethodDistance(FreshAt(call.ship_lat, call.ship_lon, a.lat, a.lon),
                   call.method).distance

\* Asset a lies within the watch circle of the latest call.
InCircle(a) == OwnDistance(a).fin /\ OwnDistance(a).v <= call.distance

\* The distance get_distance_from_ship reports for asset a (whole metres) is
\* at most the radius of the latest call (decimetres).
ReportedWithin(a) ==
    LET r == get_distance_from_ship(InitSelf, call.ship_lat, call.ship_lon,
                                    a.lat, a.lon, call.method).ret
    IN  r.kind = "int" /\ r.val * 10 <= call.distance

NearbyCall == call.op = "get_nearby_assets_metadata"

ValidLat(x) == -900000 <= x /\ x <= 900000
ValidLon(x) == -1800000 <= x /\ x <= 1800000

\* C1: with online=True, get_all_assets_metadata and get_nearby_assets_metadata
\* never return an asset whose deploy_status contains "offline", whatever the
\* order of the provider's list.
OnlineNeverReturnsOffline ==
    (/\ call.op \in {"get_all_assets_metadata", "get_nearby_assets_metadata"}
     /\ call.online
     /\ ret.kind = "list")
    => \A i \in 1..Len(ret.val) : ~ContainsOffline(ret.val[i].deploy_status)

\* C2: when the provider succeeds and no listed asset lies within the watch
\* circle, get_nearby_assets_metadata returns the empty sequence, not None.
NoMatchReturnsEmptySequence ==
    (/\ NearbyCall
     /\ call.response.success
     /\ \A i \in 1..Len(Listed) : ~InCircle(Listed[i]))
    => ret = Returned("list", <<>>)

\* C3: a provider failure during get_all_assets_metadata or
\* get_nearby_assets_metadata ends in the dedicated provider-unavailable
\* error, never in a return value or in another kind of outcome.
FailureIsProviderUnavailable ==
    (/\ call.op \in {"get_all_assets_metadata", "get_nearby_assets_metadata"}
     /\ ~call.response.success)
    => ret.kind = "ProviderUnavailable"

\* C4: the containment test of get_nearby_assets_metadata keeps a listed
\* asset if and only if the distance get_distance_from_ship reports for the
\* same points and method is at most the radius.
InRangeIffReportedWithin ==
    (NearbyCall /\ ret.kind \in {"list", "None"})
    => \A i \in 1..Len(Listed) :
           (\E j \in 1..Len(ret.val) : ret.val[j] = Listed[i])
               <=> ReportedWithin(Listed[i])

\* C5: after a planar distance is computed the zone is 10 if the ship's
\* longitude is >= -126, 9 if it lies strictly between -129 and -126, and 8
\* if it is <= -129, whatever the asset's longitude.
ZoneFromShipLongitude ==
    (call.op = "get_distance_from_ship" /\ call.method \in {"euclidian", "manhattan"})
    => /\ call.ship_lon >= -1260000 => self.projection = 10
       /\ (-1290000 < call.ship_lon /\ call.ship_lon < -1260000) => self.projection = 9
       /\ call.ship_lon <= -1290000 => self.projection = 8
       /\ self.projection \in {8, 9, 10}

\* C5, its case: the ship just below -126 (zone 9) and the asset beyond -129
\* (zone 8).
ZoneNineShipZoneEightAsset ==
    /\ call.op = "get_distance_from_ship"
    /\ call.method = "manhattan"
    /\ call.ship_lon = -1260001
    /\ call.asset_lon = -1290001
    /\ self.projection = 9

\* C6: the query parameters an operation sends are exactly those of the
\* operation and its arguments: opt for meta, opt and asset_id for data_age,
\* opt, asset_id, units_mode and var_id for recent_values.
RequestHoldsOwnParametersOnly ==
    /\ call.op = "get_all_assets_metadata"
       => requests = << [opt |-> "meta", asset_id |-> Absent,
                         units_mode |-> Absent, var_id |-> Absent] >>
    /\ call.op = "check_asset_data_age"
       => requests = << [opt |-> "data_age", asset_id |-> call.asset.siso_id,
                         units_mode |-> Absent, var_id |-> Absent] >>
    /\ call.op = "get_recent_data"
       => \A i \in 1..Len(requests) :
              requests[i] = [opt |-> "recent_values",
                             asset_id |-> call.asset.siso_id,
                             units_mode |-> "v1",
                             var_id |-> call.asset.measurements[i].var_id]

\* C7: the geospatial operations end in the invalid-argument error whenever
\* a latitude is outside [-90, 90], a longitude is outside [-180, 180] or
\* the radius is not positive.
InvalidArgumentsRejected ==
    /\ (/\ call.op \in {"get_distance_from_ship", "get_bearing_from_ship"}
        /\ ~(/\ ValidLat(call.ship_lat) /\ ValidLon(call.ship_lon)
             /\ ValidLat(call.asset_lat) /\ ValidLon(call.asset_lon)))
       => ret.kind = "InvalidArgument"
    /\ (/\ NearbyCall
        /\ (call.distance <= 0 \/ ~ValidLat(call.ship_lat) \/ ~ValidLon(call.ship_lon)))
       => ret.kind = "InvalidArgument"

\* C8: get_recent_data sends one request per declared variable, in declared
\* order, is not aborted by a failed fetch, and entry i of its result holds
\* only samples of variable i's own fetch (none when that fetch failed).
EntryHoldsOwnFetchOnly ==
    call.op = "get_recent_data"
    => /\ Len(requests) = Len(call.asset.measurements)
       /\ \A i \in 1..Len(requests) :
              requests[i].var_id = call.asset.measurements[i].var_id
       /\ ret.kind = "list"
       /\ Len(ret.val) = Len(call.asset.measurements)
       /\ \A i \in 1..Len(ret.val) :
              ret.val[i] \subseteq DataOf(call.responses[i].result, {})

EarlierHistory ==
    get_distance_from_ship(
        get_distance_from_ship(InitSelf, 446258, -1290001, 446258, -1260000,
                               "euclidian").self,
        446258, -1290001, 446259, -1260000, "haversine").self

\* C10: get_distance_from_ship and get_asset_distance_bearing return what
\* the same arguments give on a fresh instance and on an instance with
\* another history, whatever calls came before on this one.
DistanceDependsOnArgumentsOnly ==
    /\ call.op = "get_distance_from_ship"
       => /\ ret = get_distance_from_ship(EarlierHistory, call.ship_lat, call.ship_lon,
                                          call.asset_lat, call.asset_lon,
                                          call.method).ret
          /\ ret = get_distance_from_ship(InitSelf, call.ship_lat, call.ship_lon,
                                          call.asset_lat, call.asset_lon,
                                          call.method).ret
    /\ call.op = "get_asset_distance_bearing"
       => /\ ret = get_asset_distance_bearing(EarlierHistory, call.ship_lat,
                                              call.ship_lon, call.asset,
                                              call.method).ret
          /\ ret = get_asset_distance_bearing(InitSelf, call.ship_lat,
                                              call.ship_lon, call.asset,
                                              call.method).ret

\* C10, its case: a manhattan distance is returned while self.euclidian
\* still holds the distance of an earlier call with other points.
DistanceAfterOtherPoints ==
    /\ call.op = "get_distance_from_ship"
    /\ call.method = "manhattan"
    /\ ret.kind = "int"
    /\ self.euclidian.set
    /\ self.euclidian # _get_euclidian_distance(self).euclidian

====
